---- MODULE Spec2Model ----
(***************************************************************************)
(* Model of the water physics simulator of capybara-swim                   *)
(* (src/src/water-shaders.js, createWaterPhysics and what it returns) and  *)
(* of the water controls of its application (water-controls.js, main.js).  *)
(*                                                                         *)
(* JavaScript numbers are modelled as exact rationals <<n, d>> with d > 0  *)
(* in lowest terms; <<0, 0>> is NaN.  Comparisons with NaN are false and   *)
(* arithmetic with NaN yields NaN, as in IEEE-754.  A sum or product that  *)
(* does not fit 32-bit integers is computed on rounded operands (only the  *)
(* squares of lengthSq on large forces need it).  Math.sin is modelled     *)
(* by Bhaskara's rational approximation on a grid of hundredths of a       *)
(* radian, rounded down to thousandths.                                    *)
(***************************************************************************)
EXTENDS Integers, Sequences, FiniteSets, TLC

VARIABLES
    pc,         \* "load": modules loaded; "ready": simulator created; "ticked": update
                \* has run; "called": one of its functions was called directly;
                \* "mutated": settings were written from outside; "gui": the
                \* application has created its water and its controls
    settings,   \* the settings object of the simulator (closure variable)
    vectors,    \* heap of THREE.Vector2 objects, by reference
    bodies,     \* world.bodies: the rigid bodies of the Rapier world, in list order
    calls,      \* applyWaterPhysics invocations of the last update, in order
    impulses,   \* applyImpulse calls of the last update, in order
    tick,       \* arguments of the last update call, with the Math.random seed
    lastBuoy,   \* last calculateBuoyancyForce call: arguments and result
    lastDrag,   \* last calculateDragForce call: arguments and result
    lastHeight, \* last getWaterHeight call: arguments and result
    peer,       \* a second simulator made by createWaterPhysics: its settings object
    waterParams,\* the module-level waterParams object of water-controls.js
    physics,    \* the physics object of the application
    waterY      \* water.position.y of the application's Water object

\* the state of the application and its controls
appVars == <<waterParams, physics, waterY>>

vars == <<pc, settings, vectors, bodies, calls, impulses, tick, lastBuoy, lastDrag, lastHeight,
          peer, waterParams, physics, waterY>>

----------------------------------------------------------------------------
(* JavaScript number arithmetic *)

NaN == <<0, 0>>

IsNaN(a) == a[2] = 0

Abs(n) == IF n < 0 THEN -n ELSE n

RECURSIVE GCD(_, _)
GCD(a, b) == IF b = 0 THEN a ELSE GCD(b, a % b)

\* the number n/d (d # 0) in lowest terms with a positive denominator
R(n, d) ==
    LET s == IF d < 0 THEN -1 ELSE 1
        g == GCD(Abs(n), Abs(d))
    IN  <<(s * n) \div g, (s * d) \div g>>

Zero == <<0, 1>>
One == <<1, 1>>

RNeg(a) == IF IsNaN(a) THEN NaN ELSE <<-a[1], a[2]>>

\* the largest integer of the arithmetic
MaxInt == 2147483647

\* whether x * y is computed without overflow
Fits(x, y) == x = 0 \/ y = 0 \/ Abs(x) <= MaxInt \div Abs(y)

RECURSIVE ShrinkBy(_, _, _)
ShrinkBy(a, k, limit) ==
    IF Abs(a[1]) \div k <= limit /\ a[2] \div k <= limit
    THEN LET n == IF a[1] = 0 THEN 0
                  ELSE IF Abs(a[1]) \div k = 0 THEN (IF a[1] < 0 THEN -1 ELSE 1)
                  ELSE IF a[1] < 0 THEN -(Abs(a[1]) \div k) ELSE a[1] \div k
             d == IF a[2] \div k = 0 THEN 1 ELSE a[2] \div k
         IN  R(n, d)
    ELSE ShrinkBy(a, 2 * k, limit)

\* Rounding: a with numerator and denominator brought within limit, its
\* sign kept.  Applied to the operands of an operation whose exact result
\* does not fit the integers, as a double rounds; every other result is exact.
Shrink(a, limit) == ShrinkBy(a, 1, limit)

AddExact(a, b) ==
    LET g == GCD(a[2], b[2])
    IN  R(a[1] * (b[2] \div g) + b[1] * (a[2] \div g), (a[2] \div g) * b[2])

AddFits(a, b) ==
    LET g == GCD(a[2], b[2])
    IN  /\ Fits(a[1], b[2] \div g)
        /\ Fits(b[1], a[2] \div g)
        /\ Fits(a[2] \div g, b[2])
        /\ Abs(a[1] * (b[2] \div g)) <= MaxInt - Abs(b[1] * (a[2] \div g))

RAdd(a, b) ==
    IF IsNaN(a) \/ IsNaN(b) THEN NaN
    ELSE IF a[1] = 0 THEN b
    ELSE IF b[1] = 0 THEN a
    ELSE IF a[2] = b[2] /\ Abs(a[1]) <= 1000000000 /\ Abs(b[1]) <= 1000000000
         THEN R(a[1] + b[1], a[2])
    ELSE IF AddFits(a, b) THEN AddExact(a, b)
    ELSE AddExact(Shrink(a, 16384), Shrink(b, 16384))

RSub(a, b) == RAdd(a, RNeg(b))

\* a * b with the common factors g1 of a's numerator and b's denominator
\* and g2 of b's numerator and a's denominator cancelled
MulBy(a, b, g1, g2) ==
    <<(a[1] \div g1) * (b[1] \div g2), (a[2] \div g2) * (b[2] \div g1)>>

MulFitsBy(a, b, g1, g2) ==
    Fits(a[1] \div g1, b[1] \div g2) /\ Fits(a[2] \div g2, b[2] \div g1)

MulExact(a, b) == MulBy(a, b, GCD(Abs(a[1]), b[2]), GCD(Abs(b[1]), a[2]))

RMul(a, b) ==
    IF IsNaN(a) \/ IsNaN(b) THEN NaN
    ELSE IF a[1] = 0 \/ b[1] = 0 THEN <<0, 1>>
    ELSE LET g1 == GCD(Abs(a[1]), b[2])
             g2 == GCD(Abs(b[1]), a[2])
         IN  IF MulFitsBy(a, b, g1, g2) THEN MulBy(a, b, g1, g2)
             ELSE MulExact(Shrink(a, 46340), Shrink(b, 46340))

\* a / b; 0 / 0 is NaN.  The only division of the simulator divides a sum
\* over the sample points by their count, and an empty sum is 0.
RDiv(a, b) ==
    IF IsNaN(a) \/ IsNaN(b) \/ b[1] = 0 THEN NaN
    ELSE RMul(a, R(b[2], b[1]))

\* a < b, false when either is NaN
RLt(a, b) ==
    /\ ~IsNaN(a)
    /\ ~IsNaN(b)
    /\ LET g == GCD(a[2], b[2])
       IN  a[1] * (b[2] \div g) < b[1] * (a[2] \div g)

RGt(a, b) == RLt(b, a)

\* a <= b, false when either is NaN
RLe(a, b) == ~IsNaN(a) /\ ~IsNaN(b) /\ ~RLt(b, a)

\* Math.ceil
Ceil(a) == IF IsNaN(a) THEN NaN ELSE <<-((-a[1]) \div a[2]), 1>>

\* Math.min: NaN when either argument is NaN
Min(a, b) == IF IsNaN(a) \/ IsNaN(b) THEN NaN ELSE IF RLt(b, a) THEN b ELSE a

RECURSIVE ISqrtBetween(_, _, _)
ISqrtBetween(n, lo, hi) ==
    IF hi - lo <= 1 THEN lo
    ELSE LET mid == (lo + hi) \div 2
         IN  IF mid * mid <= n THEN ISqrtBetween(n, mid, hi) ELSE ISqrtBetween(n, lo, mid)

\* largest k with k * k <= n, for 0 <= n < 46340 * 46340
ISqrt(n) == ISqrtBetween(n, 0, 46340)

\* Math.sqrt of a >= 0: exact when a is the square of a rational, else
\* rounded down to thousandths
Sqrt(a) ==
    IF IsNaN(a) \/ a[1] < 0 THEN NaN
    ELSE LET rn == ISqrt(a[1])
             rd == ISqrt(a[2])
         IN  IF rn * rn = a[1] /\ rd * rd = a[2] THEN <<rn, rd>>
             ELSE R(ISqrt((a[1] * 1000000) \div a[2]), 1000)

\* Bhaskara's approximation of sin on [0, pi], the angle x in hundredths
\* of a radian (pi = 3.14), the result in thousandths
Bhaskara(x) == (16000 * x * (314 - x)) \div (5 * 314 * 314 - 4 * x * (314 - x))

\* the angle a in hundredths of a radian, rounded down
Hundredths(a) ==
    LET b == IF a[2] <= 10000000 THEN a ELSE Shrink(a, 10000000)
    IN  100 * (b[1] \div b[2]) + (100 * (b[1] % b[2])) \div b[2]

\* Math.sin
Sin(a) ==
    IF IsNaN(a) THEN NaN
    ELSE LET m == Hundredths(a) % 628
         IN  IF m <= 314 THEN R(Bhaskara(m), 1000) ELSE R(-Bhaskara(m - 314), 1000)

----------------------------------------------------------------------------
(* THREE.Vector3, as <<x, y, z>> *)

ZeroVector == <<Zero, Zero, Zero>>

VAdd(u, v) == <<RAdd(u[1], v[1]), RAdd(u[2], v[2]), RAdd(u[3], v[3])>>

multiplyScalar(v, s) == <<RMul(v[1], s), RMul(v[2], s), RMul(v[3], s)>>

lengthSq(v) == RAdd(RAdd(RMul(v[1], v[1]), RMul(v[2], v[2])), RMul(v[3], v[3]))

length(v) == Sqrt(lengthSq(v))

\* Vector3.normalize: divideScalar(length() || 1); NaN and 0 are falsy
normalize(v) ==
    LET l == length(v)
        s == IF IsNaN(l) \/ l = Zero THEN One ELSE l
    IN  <<RDiv(v[1], s), RDiv(v[2], s), RDiv(v[3], s)>>

----------------------------------------------------------------------------
(* Settings *)

DefaultDir == "defaultDir"
ParamDir == "paramDir"

\* new THREE.Vector2(1, 1).normalize(), to three decimals
DefaultDirValue == <<R(707, 1000), R(707, 1000)>>

\* the module-level default parameters; waveDirection is a reference
waterPhysicsParams ==
    [density |-> R(1, 1),
     buoyancyMultiplier |-> R(6, 5),
     linearDrag |-> R(1, 2),
     quadraticDrag |-> R(1, 20),
     waveHeight |-> R(1, 5),
     waveFrequency |-> R(1, 2),
     waveSpeed |-> R(1, 1),
     waveDirection |-> DefaultDir,
     surfaceTension |-> R(7, 100),
     vorticity |-> R(1, 10),
     damping |-> R(3, 100),
     subSteps |-> R(3, 1),
     maxBuoyancyPoints |-> R(8, 1)]

\* { ...waterPhysicsParams, ...params }
MergeSettings(params) ==
    [k \in DOMAIN waterPhysicsParams |->
        IF k \in DOMAIN params THEN params[k] ELSE waterPhysicsParams[k]]

\* Gravity rounded to 9.8
GravityRounded == R(98, 10)

\* the gravitational constant 9.81 of calculateBuoyancyForce
Gravity == R(981, 100)

\* the speed below which calculateDragForce applies no drag, 0.001
MinSpeed == R(1, 1000)

\* the margin above the water level beyond which a body is skipped
SkipMargin == R(5, 1)

----------------------------------------------------------------------------
(* Pure functions of the simulator, over a settings record s and the
   wave direction dir it refers to *)

\* getWaterHeight with the amplitude factor of the tertiary wave mistyped as 1.5
getWaterHeightTallTertiary(s, dir, x, z, time) ==
    LET waveX == dir[1]
        waveZ == dir[2]
        primary ==
            RMul(Sin(RAdd(RMul(RAdd(RMul(x, waveX), RMul(z, waveZ)), s.waveFrequency),
                          RMul(time, s.waveSpeed))),
                 s.waveHeight)
        secondary ==
            RMul(RMul(Sin(RAdd(RMul(RMul(RAdd(RMul(x, RNeg(waveZ)), RMul(z, waveX)),
                                         s.waveFrequency), R(3, 2)),
                               RMul(RMul(time, s.waveSpeed), R(4, 5)))),
                      s.waveHeight), R(3, 10))
        tertiary ==
            RMul(RMul(Sin(RAdd(RMul(RMul(RAdd(RMul(x, RAdd(waveX, waveZ)),
                                              RMul(z, RSub(waveX, waveZ))),
                                         s.waveFrequency), R(23, 10)),
                               RMul(RMul(time, s.waveSpeed), R(6, 5)))),
                      s.waveHeight), R(3, 2))
    IN  RAdd(RAdd(primary, secondary), tertiary)

getWaterHeight(s, dir, x, z, time) ==
    LET waveX == dir[1]
        waveZ == dir[2]
        primary ==
            RMul(Sin(RAdd(RMul(RAdd(RMul(x, waveX), RMul(z, waveZ)), s.waveFrequency),
                          RMul(time, s.waveSpeed))),
                 s.waveHeight)
        secondary ==
            RMul(RMul(Sin(RAdd(RMul(RMul(RAdd(RMul(x, RNeg(waveZ)), RMul(z, waveX)),
                                         s.waveFrequency), R(3, 2)),
                               RMul(RMul(time, s.waveSpeed), R(4, 5)))),
                      s.waveHeight), R(3, 10))
        tertiary ==
            RMul(RMul(Sin(RAdd(RMul(RMul(RAdd(RMul(x, RAdd(waveX, waveZ)),
                                              RMul(z, RSub(waveX, waveZ))),
                                         s.waveFrequency), R(23, 10)),
                               RMul(RMul(time, s.waveSpeed), R(6, 5)))),
                      s.waveHeight), R(3, 20))
    IN  RAdd(RAdd(primary, secondary), tertiary)

\* calculateBuoyancyForce with the surface taken from the waves alone
calculateBuoyancyForceWavesOnly(s, dir, position, waterLevel, time) ==
    LET actualWaterHeight == getWaterHeight(s, dir, position[1], position[3], time)
        submergedDepth == RSub(actualWaterHeight, position[2])
        buoyancyForce ==
            RMul(RMul(RMul(s.density, Gravity), submergedDepth), s.buoyancyMultiplier)
    IN  IF RGt(position[2], actualWaterHeight)
        THEN [force |-> ZeroVector, submergedDepth |-> Zero]
        ELSE [force |-> <<Zero, buoyancyForce, Zero>>, submergedDepth |-> submergedDepth]

calculateBuoyancyForce(s, dir, position, waterLevel, time) ==
    LET actualWaterHeight ==
            RAdd(waterLevel, getWaterHeight(s, dir, position[1], position[3], time))
        submergedDepth == RSub(actualWaterHeight, position[2])
        buoyancyForce ==
            RMul(RMul(RMul(s.density, Gravity), submergedDepth), s.buoyancyMultiplier)
    IN  IF RGt(position[2], actualWaterHeight)
        THEN [force |-> ZeroVector, submergedDepth |-> Zero]
        ELSE [force |-> <<Zero, buoyancyForce, Zero>>, submergedDepth |-> submergedDepth]

\* calculateDragForce without the sign that turns the force against the velocity
calculateDragForceAlong(s, velocity, submergedDepth) ==
    LET speed == length(velocity)
        dragMagnitude ==
            RMul(RAdd(RMul(s.linearDrag, speed),
                      RMul(RMul(s.quadraticDrag, speed), speed)),
                 submergedDepth)
    IN  IF RLe(submergedDepth, Zero) THEN ZeroVector
        ELSE IF RLt(speed, MinSpeed) THEN ZeroVector
        ELSE multiplyScalar(normalize(velocity), dragMagnitude)

calculateDragForce(s, velocity, submergedDepth) ==
    LET speed == length(velocity)
        dragMagnitude ==
            RMul(RAdd(RMul(s.linearDrag, speed),
                      RMul(RMul(s.quadraticDrag, speed), speed)),
                 submergedDepth)
    IN  IF RLe(submergedDepth, Zero) THEN ZeroVector
        ELSE IF RLt(speed, MinSpeed) THEN ZeroVector
        ELSE multiplyScalar(normalize(velocity), RNeg(dragMagnitude))

----------------------------------------------------------------------------
(* The Rapier world *)

\* A rigid body: bodyType() , translation(), linvel(), and its collider 0
\* as world.getCollider returns it (hasCollider = FALSE: null).
Body(type, pos, vel, has, shape, he) ==
    [bodyType |-> type, translation |-> pos, linvel |-> vel,
     hasCollider |-> has, shape |-> shape, halfExtents |-> he]

V(x, y, z) == <<R(x, 1), R(y, 1), R(z, 1)>>

Half == R(1, 2)

\* bodies a world can hold
BodyChoices ==
    { Body("Dynamic", V(0, 0, 0), V(3, 0, 4), TRUE, "Cuboid", <<One, Half, Half>>),
      Body("Dynamic", V(1, 6, 2), V(0, -3, 4), TRUE, "Ball", <<Zero, Zero, Zero>>),
      Body("Dynamic", <<Zero, NaN, Zero>>, V(1, 2, 2), TRUE, "Cuboid", <<Half, Half, Half>>),
      Body("Dynamic", V(0, -1, 0), V(0, -3, 4), FALSE, "Ball", <<Zero, Zero, Zero>>),
      Body("Dynamic", V(0, -1, 0), V(3, 0, 4), TRUE, "Cuboid", <<Zero, Half, Half>>),
      Body("Fixed", V(0, -1, 0), V(1, 2, 2), TRUE, "Cuboid", <<Half, Half, Half>>) }

\* the largest number of bodies of a world
MaxBodies == 2

WorldChoices == UNION { [1..n -> BodyChoices] : n \in 0..MaxBodies }

\* Math.random: a linear congruential generator over eighths; the k-th
\* number (k >= 1) drawn after seeding with seed
Seeds == 0..3

RECURSIVE RandomState(_, _)
RandomState(seed, k) == IF k = 0 THEN seed ELSE (5 * RandomState(seed, k - 1) + 3) % 8

Random(seed, k) == R(RandomState(seed, k), 8)

\* rigidBody.applyImpulse(impulse, true) on a body of unit mass
applyImpulse(body, impulse) == [body EXCEPT !.linvel = VAdd(body.linvel, impulse)]

----------------------------------------------------------------------------
(* applyWaterPhysics *)

RECURSIVE SumForces(_)
SumForces(samples) ==
    IF samples = <<>> THEN ZeroVector
    ELSE VAdd(SumForces(SubSeq(samples, 1, Len(samples) - 1)), samples[Len(samples)].force)

RECURSIVE SumDepths(_)
SumDepths(samples) ==
    IF samples = <<>> THEN Zero
    ELSE RAdd(SumDepths(SubSeq(samples, 1, Len(samples) - 1)),
              samples[Len(samples)].submergedDepth)

\* HalfExtentsOf without the default for shapes other than a cuboid
HalfExtentsOfCollider(body) == body.halfExtents

\* half-extents used for sampling: the collider's own for a cuboid
HalfExtentsOf(body) ==
    IF body.shape = "Cuboid" THEN body.halfExtents ELSE <<Half, Half, Half>>

\* Math.min(settings.maxBuoyancyPoints, Math.ceil(hx * hy * hz * 8))
NumPoints(s, he) ==
    Min(s.maxBuoyancyPoints, Ceil(RMul(RMul(RMul(he[1], he[2]), he[3]), R(8, 1))))

\* iterations of for (let i = 0; i < numPoints; i++)
LoopCount(numPoints) ==
    IF IsNaN(numPoints) \/ numPoints[1] <= 0 THEN 0 ELSE Ceil(numPoints)[1]

\* the i-th sample point (i >= 1), drawn after k random numbers were used
SamplePoint(position, he, seed, k, i) ==
    LET px == RMul(RSub(RMul(Random(seed, k + 3 * i - 2), R(2, 1)), One), he[1])
        py == RMul(RSub(RMul(Random(seed, k + 3 * i - 1), R(2, 1)), One), he[2])
        pz == RMul(RSub(RMul(Random(seed, k + 3 * i), R(2, 1)), One), he[3])
    IN  <<RAdd(position[1], px), RAdd(position[2], py), RAdd(position[3], pz)>>

\* FarAbove with the margin mistyped
FarAboveWideMargin(position, waterLevel) == RGt(position[2], RAdd(waterLevel, R(50, 1)))

\* position.y > waterLevel + 5: the body is far above the water
FarAbove(position, waterLevel) == RGt(position[2], RAdd(waterLevel, SkipMargin))

\* NonZero without the test: the impulse is applied whatever the force
NonZeroAlways(force) == TRUE

\* NonZero written as force.lengthSq() !== 0, which NaN satisfies
NonZeroNotEqual(force) == lengthSq(force) # Zero

\* force.lengthSq() > 0
NonZero(force) == RGt(lengthSq(force), Zero)

\* Average without the division: the sum of the depths
AverageUndivided(sum, count) == sum

\* averageSubmergedDepth /= buoyancyPoints.length
Average(sum, count) == RDiv(sum, R(count, 1))

\* AtSurface without the upper limit on the depth
AtSurfaceAnyDepth(averageSubmergedDepth, halfExtents) ==
    RGt(averageSubmergedDepth, Zero)

\* averageSubmergedDepth > 0 && averageSubmergedDepth < halfExtents.y * 2
AtSurface(averageSubmergedDepth, halfExtents) ==
    /\ RGt(averageSubmergedDepth, Zero)
    /\ RLt(averageSubmergedDepth, RMul(halfExtents[2], R(2, 1)))

\* the sample points i..n, in the order the loop pushes them
RECURSIVE SamplePoints(_, _, _, _, _, _)
SamplePoints(position, he, seed, k, i, n) ==
    IF i > n THEN << >>
    ELSE <<SamplePoint(position, he, seed, k, i)>> \o SamplePoints(position, he, seed, k, i + 1, n)

\* calculateBuoyancyForce at each of the points, in order
RECURSIVE SampleAll(_, _, _, _, _)
SampleAll(s, dir, points, waterLevel, time) ==
    IF points = << >> THEN << >>
    ELSE <<calculateBuoyancyForce(s, dir, Head(points), waterLevel, time)>>
         \o SampleAll(s, dir, Tail(points), waterLevel, time)

\* lines 510-516: the wave direction scaled by waveHeight * 0.5 * sin(time * waveSpeed)
WaveForce(s, dir, time) ==
    multiplyScalar(<<dir[1], Zero, dir[2]>>,
                   RMul(RMul(s.waveHeight, Half), Sin(RMul(time, s.waveSpeed))))

\* line 519: the horizontal impulse of a wave force
SurgeImpulse(waveForce, deltaTime) ==
    <<RMul(waveForce[1], deltaTime), Zero, RMul(waveForce[3], deltaTime)>>

\* the result of a call that returns before sampling
Skipped(body, why) ==
    [outcome |-> why, position |-> body.translation, velocity |-> body.linvel,
     halfExtents |-> HalfExtentsOf(body), points |-> << >>, samples |-> << >>,
     total |-> ZeroVector, divisor |-> 1, average |-> Zero, drag |-> ZeroVector,
     applied |-> << >>, used |-> 0]

\* lines 488-522: the applyImpulse calls for the aggregated forces, in order
ApplyForces(s, dir, body, time, deltaTime, points, samples, total, average, drag) ==
    [outcome |-> "completed", position |-> body.translation, velocity |-> body.linvel,
     halfExtents |-> HalfExtentsOf(body), points |-> points, samples |-> samples,
     total |-> total, divisor |-> Len(points), average |-> average, drag |-> drag,
     applied |->
         (IF NonZero(total)
          THEN << [kind |-> "buoyancy",
                   impulse |-> <<Zero, RMul(total[2], deltaTime), Zero>>] >>
          ELSE << >>)
         \o (IF NonZero(drag)
             THEN << [kind |-> "drag", impulse |-> multiplyScalar(drag, deltaTime)] >>
             ELSE << >>)
         \o (IF AtSurface(average, HalfExtentsOf(body))
             THEN << [kind |-> "surge",
                      impulse |-> SurgeImpulse(WaveForce(s, dir, time), deltaTime)] >>
             ELSE << >>),
     used |-> 3 * Len(points)]

\* lines 482-486: one drag force from the body's velocity and the average depth
DragForces(s, dir, body, time, deltaTime, points, samples, total, average) ==
    ApplyForces(s, dir, body, time, deltaTime, points, samples, total, average,
                calculateDragForce(s, body.linvel, average))

\* lines 465-480: the forces summed and the depths averaged over the points
Aggregate(s, dir, body, time, deltaTime, points, samples) ==
    DragForces(s, dir, body, time, deltaTime, points, samples,
               SumForces(samples), Average(SumDepths(samples), Len(points)))

\* lines 470-473: calculateBuoyancyForce at every sample point
Sample(s, dir, body, waterLevel, time, deltaTime, points) ==
    Aggregate(s, dir, body, time, deltaTime, points,
              SampleAll(s, dir, points, waterLevel, time))

\* One call applyWaterPhysics(rigidBody, waterLevel, time, deltaTime), k
\* random numbers drawn before it: what it computed and the applyImpulse
\* calls it makes, in order.
applyWaterPhysics(s, dir, body, waterLevel, time, deltaTime, seed, k) ==
    IF FarAbove(body.translation, waterLevel) THEN Skipped(body, "above")
    ELSE IF ~body.hasCollider THEN Skipped(body, "nocollider")
    ELSE Sample(s, dir, body, waterLevel, time, deltaTime,
                SamplePoints(body.translation, HalfExtentsOf(body), seed, k, 1,
                             LoopCount(NumPoints(s, HalfExtentsOf(body)))))

RECURSIVE ApplyAll(_, _)
ApplyAll(body, applied) ==
    IF applied = << >> THEN body
    ELSE ApplyAll(applyImpulse(body, applied[1].impulse), Tail(applied))

----------------------------------------------------------------------------
(* Inputs *)

\* params objects passed to createWaterPhysics, each with the Vector2 its
\* waveDirection (when it has one) refers to
ParamChoices ==
    << [params |-> [k \in {} |-> Zero], dir |-> DefaultDirValue],
       [params |-> [waveHeight |-> Zero, density |-> One, buoyancyMultiplier |-> One],
        dir |-> DefaultDirValue],
       [params |-> [maxBuoyancyPoints |-> Zero], dir |-> DefaultDirValue],
       [params |-> [waveDirection |-> ParamDir, maxBuoyancyPoints |-> One],
        dir |-> <<Zero, Zero>>],
       [params |-> [density |-> R(-1, 1), subSteps |-> R(-1, 1),
                    maxBuoyancyPoints |-> R(-1, 1)],
        dir |-> DefaultDirValue],
       [params |-> [waveDirection |-> ParamDir, waveHeight |-> R(8, 1),
                    linearDrag |-> Zero, quadraticDrag |-> R(1, 10)],
        dir |-> <<R(3, 5), R(4, 5)>>] >>

WaterLevels == {Zero, R(2, 1)}
Times == {Zero, One}

\* arguments of update
TickChoices ==
    { [deltaTime |-> Zero, waterLevel |-> Zero, time |-> Zero],
      [deltaTime |-> R(1, 60), waterLevel |-> Zero, time |-> One],
      [deltaTime |-> R(1, 60), waterLevel |-> R(2, 1), time |-> Zero],
      [deltaTime |-> R(1, 60), waterLevel |-> R(2, 1), time |-> One] }

----------------------------------------------------------------------------
(* State machine *)

NoTick == [deltaTime |-> Zero, waterLevel |-> Zero, time |-> Zero, seed |-> 0]

NoBuoy ==
    [called |-> FALSE, position |-> ZeroVector, waterLevel |-> Zero, time |-> Zero,
     result |-> [force |-> ZeroVector, submergedDepth |-> Zero]]

NoDrag ==
    [called |-> FALSE, velocity |-> ZeroVector, submergedDepth |-> Zero,
     result |-> ZeroVector]

NoHeight == [called |-> FALSE, x |-> Zero, z |-> Zero, time |-> Zero, result |-> Zero]

\* no second simulator yet
NoPeer == [created |-> FALSE, settings |-> waterPhysicsParams]

\* const waterParams = { ... } of water-controls.js: the fields its physics
\* folder controls
DefaultWaterParams ==
    [buoyancyForce |-> R(20, 1), dragCoefficient |-> R(2, 1), waterLevel |-> Zero]

\* const physics = { ... } of the application, built from waterParams
InitialPhysics(params) ==
    [buoyancyForce |-> params.buoyancyForce,
     dragCoefficient |-> params.dragCoefficient,
     waterLevel |-> params.waterLevel]

Init ==
    /\ pc = "load"
    /\ settings = waterPhysicsParams
    /\ vectors = (DefaultDir :> DefaultDirValue)
    /\ bodies \in WorldChoices
    /\ calls = << >>
    /\ impulses = << >>
    /\ tick = NoTick
    /\ lastBuoy = NoBuoy
    /\ lastDrag = NoDrag
    /\ lastHeight = NoHeight
    /\ peer = NoPeer
    /\ waterParams = DefaultWaterParams
    /\ physics = InitialPhysics(DefaultWaterParams)
    /\ waterY = Zero

\* createWaterPhysics(world, params)
createWaterPhysics(c) ==
    /\ pc = "load"
    /\ pc' = "ready"
    /\ settings' = MergeSettings(c.params)
    /\ vectors' = IF "waveDirection" \in DOMAIN c.params
                  THEN (ParamDir :> c.dir) @@ vectors
                  ELSE vectors
    /\ UNCHANGED <<bodies, calls, impulses, tick, lastBuoy, lastDrag, lastHeight, peer, appVars>>

\* the wave direction vector the settings refer to
Direction == vectors[settings.waveDirection]

\* IsDynamic without the test of the body type
IsDynamicAlways(body) == TRUE

\* whether update passes the body to applyWaterPhysics
IsDynamic(body) == body.bodyType = "Dynamic"

\* whether a body carries a NaN coordinate or has no collider
Malformed(body) ==
    \/ IsNaN(body.translation[1])
    \/ IsNaN(body.translation[2])
    \/ IsNaN(body.translation[3])
    \/ ~body.hasCollider

RECURSIVE UpdateLoop(_, _, _, _, _, _, _, _, _)

\* the loop after the call on body i returned t
AfterCall(s, dir, deltaTime, waterLevel, time, seed, i, k, acc, t) ==
    UpdateLoop(s, dir, deltaTime, waterLevel, time, seed, i + 1, k + t.used,
        [bodies |-> [acc.bodies EXCEPT ![i] = ApplyAll(acc.bodies[i], t.applied)],
         calls |-> Append(acc.calls, [body |-> i, trace |-> t]),
         impulses |-> acc.impulses \o
             [j \in 1..Len(t.applied) |->
                 [body |-> i, kind |-> t.applied[j].kind, impulse |-> t.applied[j].impulse]]])

\* UpdateLoop ended by the first malformed dynamic body, as by an exception
UpdateLoopAborting(s, dir, deltaTime, waterLevel, time, seed, i, k, acc) ==
    IF i > Len(acc.bodies) THEN acc
    ELSE IF IsDynamic(acc.bodies[i]) /\ Malformed(acc.bodies[i]) THEN acc
    ELSE IF IsDynamic(acc.bodies[i])
    THEN AfterCall(s, dir, deltaTime, waterLevel, time, seed, i, k, acc,
                   applyWaterPhysics(s, dir, acc.bodies[i], waterLevel, time, deltaTime,
                                     seed, k))
    ELSE UpdateLoop(s, dir, deltaTime, waterLevel, time, seed, i + 1, k, acc)

\* the loop of update from body i on, k random numbers drawn so far
UpdateLoop(s, dir, deltaTime, waterLevel, time, seed, i, k, acc) ==
    IF i > Len(acc.bodies) THEN acc
    ELSE IF IsDynamic(acc.bodies[i])
    THEN AfterCall(s, dir, deltaTime, waterLevel, time, seed, i, k, acc,
                   applyWaterPhysics(s, dir, acc.bodies[i], waterLevel, time, deltaTime,
                                     seed, k))
    ELSE UpdateLoop(s, dir, deltaTime, waterLevel, time, seed, i + 1, k, acc)

\* the result of the loop written to the world and the logs
Commit(r) ==
    /\ bodies' = r.bodies
    /\ calls' = r.calls
    /\ impulses' = r.impulses

\* update(deltaTime, waterLevel, time)
update(deltaTime, waterLevel, time, seed) ==
    /\ pc = "ready"
    /\ pc' = "ticked"
    /\ Commit(UpdateLoop(settings, Direction, deltaTime, waterLevel, time, seed, 1, 0,
                         [bodies |-> bodies, calls |-> << >>, impulses |-> << >>]))
    /\ tick' = [deltaTime |-> deltaTime, waterLevel |-> waterLevel, time |-> time,
                seed |-> seed]
    /\ UNCHANGED <<settings, vectors, lastBuoy, lastDrag, lastHeight, peer, appVars>>

Next ==
    \/ \E i \in 1..Len(ParamChoices) : createWaterPhysics(ParamChoices[i])
    \/ \E t \in TickChoices, seed \in Seeds :
           update(t.deltaTime, t.waterLevel, t.time, seed)

Spec == Init /\ [][Next]_vars

----------------------------------------------------------------------------
(* Direct calls of the pure functions of a created simulator *)

\* the largest coordinate of the points and velocities the functions are called on
MaxCoord == 2

Coords == -MaxCoord..MaxCoord

\* y coordinates: halves, and NaN
PointHeights == { R(k, 2) : k \in Coords } \cup {NaN}

\* velocities of rational length, with one below and one at the speed 0.001
Velocities ==
    { V(a, b, c) : a \in Coords, b \in Coords, c \in Coords }
    \cup { V(3, 0, 4), V(4, 0, 0), <<Zero, Zero, R(1, 2000)>>, <<Zero, R(-1, 1000), Zero>> }

RationalLength(v) ==
    LET q == lengthSq(v)
    IN  ISqrt(q[1]) * ISqrt(q[1]) = q[1] /\ ISqrt(q[2]) * ISqrt(q[2]) = q[2]

Depths == {NaN, R(-1, 1), Zero, R(1, 2), One, R(2, 1)}

\* getWaterHeight(x, z, time)
HeightAt(x, z, time) ==
    /\ pc = "ready"
    /\ pc' = "called"
    /\ lastHeight' = [called |-> TRUE, x |-> x, z |-> z, time |-> time,
                      result |-> getWaterHeight(settings, Direction, x, z, time)]
    /\ lastBuoy' = NoBuoy
    /\ lastDrag' = NoDrag
    /\ UNCHANGED <<settings, vectors, bodies, calls, impulses, tick, peer, appVars>>

\* calculateBuoyancyForce(position, waterLevel, time); onSurface places the
\* point exactly on the water surface above (x, z)
BuoyancyAt(x, y, z, onSurface, waterLevel, time) ==
    /\ pc = "ready"
    /\ pc' = "called"
    /\ LET surfaceY == RAdd(waterLevel, getWaterHeight(settings, Direction, x, z, time))
           position == <<x, IF onSurface THEN surfaceY ELSE y, z>>
       IN  lastBuoy' = [called |-> TRUE, position |-> position, waterLevel |-> waterLevel,
                        time |-> time,
                        result |-> calculateBuoyancyForce(settings, Direction, position,
                                                          waterLevel, time)]
    /\ lastDrag' = NoDrag
    /\ lastHeight' = NoHeight
    /\ UNCHANGED <<settings, vectors, bodies, calls, impulses, tick, peer, appVars>>

\* calculateDragForce(velocity, submergedDepth)
DragAt(velocity, submergedDepth) ==
    /\ pc = "ready"
    /\ pc' = "called"
    /\ RationalLength(velocity)
    /\ lastDrag' = [called |-> TRUE, velocity |-> velocity, submergedDepth |-> submergedDepth,
                    result |-> calculateDragForce(settings, velocity, submergedDepth)]
    /\ lastBuoy' = NoBuoy
    /\ lastHeight' = NoHeight
    /\ UNCHANGED <<settings, vectors, bodies, calls, impulses, tick, peer, appVars>>

InitPure == Init /\ bodies = << >>

NextPure ==
    \/ \E i \in 1..Len(ParamChoices) : createWaterPhysics(ParamChoices[i])
    \/ \E x \in Coords, z \in {Zero, Half}, time \in Times : HeightAt(R(x, 1), z, time)
    \/ \E x \in {Zero, One}, y \in PointHeights, z \in {Zero, Half}, onSurface \in BOOLEAN,
          waterLevel \in WaterLevels, time \in Times :
           BuoyancyAt(x, y, z, onSurface, waterLevel, time)
    \/ \E velocity \in Velocities, submergedDepth \in Depths : DragAt(velocity, submergedDepth)

SpecPure == InitPure /\ [][NextPure]_vars

----------------------------------------------------------------------------
(* Two simulators, and writes to the settings object the first one exposes *)

\* the Vector2 of the params of the second createWaterPhysics call
PeerDir == "peerDir"

\* a Vector2 made by the caller after both simulators exist
FreshDir == "freshDir"

\* a second call createWaterPhysics(world, params), its params carrying a
\* Vector2 of their own when they set waveDirection
createPeer(c) ==
    /\ pc = "ready"
    /\ ~peer.created
    /\ peer' = [created |-> TRUE,
                settings |-> [MergeSettings(c.params) EXCEPT
                                 !.waveDirection =
                                     IF "waveDirection" \in DOMAIN c.params THEN PeerDir ELSE @]]
    /\ vectors' = IF "waveDirection" \in DOMAIN c.params
                  THEN (PeerDir :> c.dir) @@ vectors
                  ELSE vectors
    /\ UNCHANGED <<pc, settings, bodies, calls, impulses, tick, lastBuoy, lastDrag, lastHeight,
                   appVars>>

\* simulator.settings[field] = value, on the first simulator
SetSetting(field, value) ==
    /\ pc \in {"ready", "mutated"}
    /\ peer.created
    /\ pc' = "mutated"
    /\ settings' = [settings EXCEPT ![field] = value]
    /\ UNCHANGED <<vectors, bodies, calls, impulses, tick, lastBuoy, lastDrag, lastHeight,
                   peer, appVars>>

\* simulator.settings.waveDirection.set(x, y), on the first simulator
SetDirection(v) ==
    /\ pc \in {"ready", "mutated"}
    /\ peer.created
    /\ pc' = "mutated"
    /\ vectors' = [vectors EXCEPT ![settings.waveDirection] = v]
    /\ UNCHANGED <<settings, bodies, calls, impulses, tick, lastBuoy, lastDrag, lastHeight,
                   peer, appVars>>

\* simulator.settings.waveDirection = new THREE.Vector2(x, y), on the first simulator
ReplaceDirection(v) ==
    /\ pc \in {"ready", "mutated"}
    /\ peer.created
    /\ pc' = "mutated"
    /\ settings' = [settings EXCEPT !.waveDirection = FreshDir]
    /\ vectors' = (FreshDir :> v) @@ vectors
    /\ UNCHANGED <<bodies, calls, impulses, tick, lastBuoy, lastDrag, lastHeight,
                   peer, appVars>>

\* values written to the settings
SettingWrites == { <<"waveHeight", One>>, <<"waveFrequency", One>>, <<"density", R(2, 1)>> }

\* directions written to the settings
DirectionWrites == { <<Zero, One>>, <<One, Zero>> }

InitEngines == Init /\ bodies = << >>

NextEngines ==
    \/ \E i \in 1..Len(ParamChoices) : createWaterPhysics(ParamChoices[i])
    \/ \E i \in 1..Len(ParamChoices) : createPeer(ParamChoices[i])
    \/ \E w \in SettingWrites : SetSetting(w[1], w[2])
    \/ \E v \in DirectionWrites : SetDirection(v)
    \/ \E v \in DirectionWrites : ReplaceDirection(v)

SpecEngines == InitEngines /\ [][NextEngines]_vars

----------------------------------------------------------------------------
(* The application: its Water object, its physics object and the controls
   createWaterControls attaches to waterParams.  A lil-gui number controller
   snaps the value entered to its step, clamps it to its range, writes it to
   the property it controls and then calls its onChange handler with it. *)

\* Math.round
Round(a) == IF IsNaN(a) THEN NaN ELSE <<(2 * a[1] + a[2]) \div (2 * a[2]), 1>>

\* the value a controller with the range [min, max] and the step makes of an entry
SnapClamp(value, min, max, step) ==
    LET snapped == RMul(Round(RDiv(value, step)), step)
    IN  IF RLt(snapped, min) THEN min ELSE IF RGt(snapped, max) THEN max ELSE snapped

\* createWaterControls, lines 139-142: physics initialised from waterParams
createWaterControls(params, phys) ==
    [phys EXCEPT !.buoyancyForce = params.buoyancyForce,
                 !.dragCoefficient = params.dragCoefficient,
                 !.waterLevel = params.waterLevel]

\* createWater of the application: the water placed at waterParams.waterLevel,
\* then createWaterControls(water, physics)
createWater ==
    /\ pc = "load"
    /\ pc' = "gui"
    /\ waterY' = waterParams.waterLevel
    /\ physics' = createWaterControls(waterParams, physics)
    /\ UNCHANGED <<waterParams, settings, vectors, bodies, calls, impulses, tick,
                   lastBuoy, lastDrag, lastHeight, peer>>

\* onChange of the buoyancyForce controller
onBuoyancyForceChange(value) ==
    /\ physics' = [physics EXCEPT !.buoyancyForce = value]
    /\ waterY' = waterY

\* onChange of the dragCoefficient controller
onDragCoefficientChange(value) ==
    /\ physics' = [physics EXCEPT !.dragCoefficient = value]
    /\ waterY' = waterY

\* onChange of the waterLevel controller that leaves the Water object where it is
onWaterLevelChangePhysicsOnly(value) ==
    /\ physics' = [physics EXCEPT !.waterLevel = value]
    /\ waterY' = waterY

\* onChange of the waterLevel controller
onWaterLevelChange(value) ==
    /\ physics' = [physics EXCEPT !.waterLevel = value]
    /\ waterY' = value

\* an entry in the buoyancyForce controller: range 0..50, step 1
ChangeBuoyancyForce(entry) ==
    /\ pc = "gui"
    /\ waterParams' = [waterParams EXCEPT
                          !.buoyancyForce = SnapClamp(entry, Zero, R(50, 1), One)]
    /\ onBuoyancyForceChange(waterParams'.buoyancyForce)
    /\ UNCHANGED <<pc, settings, vectors, bodies, calls, impulses, tick,
                   lastBuoy, lastDrag, lastHeight, peer>>

\* an entry in the dragCoefficient controller: range 0..10, step 0.1
ChangeDragCoefficient(entry) ==
    /\ pc = "gui"
    /\ waterParams' = [waterParams EXCEPT
                          !.dragCoefficient = SnapClamp(entry, Zero, R(10, 1), R(1, 10))]
    /\ onDragCoefficientChange(waterParams'.dragCoefficient)
    /\ UNCHANGED <<pc, settings, vectors, bodies, calls, impulses, tick,
                   lastBuoy, lastDrag, lastHeight, peer>>

\* an entry in the waterLevel controller: range -2..2, step 0.1
ChangeWaterLevel(entry) ==
    /\ pc = "gui"
    /\ waterParams' = [waterParams EXCEPT
                          !.waterLevel = SnapClamp(entry, R(-2, 1), R(2, 1), R(1, 10))]
    /\ onWaterLevelChange(waterParams'.waterLevel)
    /\ UNCHANGED <<pc, settings, vectors, bodies, calls, impulses, tick,
                   lastBuoy, lastDrag, lastHeight, peer>>

\* values entered in a controller, by its slider or its text field
Entries == { R(-3, 1), R(-126, 100), Zero, R(33, 100), R(3, 2), R(7, 1), R(60, 1) }

InitControls == Init /\ bodies = << >>

NextControls ==
    \/ createWater
    \/ \E entry \in Entries : ChangeBuoyancyForce(entry)
    \/ \E entry \in Entries : ChangeDragCoefficient(entry)
    \/ \E entry \in Entries : ChangeWaterLevel(entry)

SpecControls == InitControls /\ [][NextControls]_vars

----------------------------------------------------------------------------
(* Properties *)

\* a step that is one update call
UpdateStep == pc = "ready" /\ pc' = "ticked"

\* the applyImpulse calls of the log imps on body i
ImpulsesOn(imps, i) == SelectSeq(imps, LAMBDA e : e.body = i)

\* the calls of the log cs on body i
CallsOn(cs, i) == SelectSeq(cs, LAMBDA c : c.body = i)

\* random numbers drawn by the calls of cs before the k-th
RECURSIVE DrawsBefore(_, _)
DrawsBefore(cs, k) == IF k <= 1 THEN 0 ELSE DrawsBefore(cs, k - 1) + cs[k - 1].trace.used

\* the surface height above a body's centre, computed from the settings
SurfaceAbove(body, waterLevel, time) ==
    RAdd(waterLevel,
         getWaterHeight(settings, Direction, body.translation[1], body.translation[3], time))

\* C1: an update applies no impulse to a body whose position.y is above
\* waterLevel + 5 and leaves that body, its velocity included, unchanged,
\* whatever the time, deltaTime and settings.
C1_FarAboveUntouched ==
    [][UpdateStep =>
         \A i \in 1..Len(bodies) :
             RGt(bodies[i].translation[2], RAdd(tick'.waterLevel, R(5, 1))) =>
                 /\ bodies'[i] = bodies[i]
                 /\ ImpulsesOn(impulses', i) = << >>]_vars

\* a moving dynamic body above waterLevel + 5 was passed to applyWaterPhysics
\* while a wave crest stood above its centre
C1_Witness ==
    /\ pc = "ticked"
    /\ \E k \in 1..Len(calls) :
           LET body == bodies[calls[k].body]
           IN  /\ calls[k].trace.outcome = "above"
               /\ body.linvel # ZeroVector
               /\ RGt(SurfaceAbove(body, tick.waterLevel, tick.time), body.translation[2])

\* C2: within one update a dynamic body with a NaN position or a null
\* collider gets no impulse and is left unchanged, and every dynamic body of
\* the world, before or after it, gets its own applyWaterPhysics call with
\* the impulses that call computes.
C2_MalformedBodySkipped ==
    [][UpdateStep =>
         \A i \in 1..Len(bodies) :
             /\ (IsDynamic(bodies[i]) /\ Malformed(bodies[i])) =>
                    /\ bodies'[i] = bodies[i]
                    /\ ImpulsesOn(impulses', i) = << >>
             /\ bodies[i].bodyType = "Dynamic" =>
                    \A k \in {Cardinality({j \in 1..i : bodies[j].bodyType = "Dynamic"})} :
                        /\ k <= Len(calls')
                        /\ \A t \in {applyWaterPhysics(settings, Direction, bodies[i],
                                           tick'.waterLevel, tick'.time, tick'.deltaTime,
                                           tick'.seed, DrawsBefore(calls', k))},
                              on \in {ImpulsesOn(impulses', i)} :
                               /\ calls'[k].body = i
                               /\ calls'[k].trace = t
                               /\ Len(on) = Len(t.applied)
                               /\ \A j \in 1..Len(t.applied) :
                                      on[j].impulse = t.applied[j].impulse
                               /\ bodies'[i] = ApplyAll(bodies[i], t.applied)]_vars

\* a malformed dynamic body came before a body that received impulses
C2_Witness ==
    /\ pc = "ticked"
    /\ \E i \in 1..Len(bodies), j \in 1..Len(bodies) :
           /\ i < j
           /\ IsDynamic(bodies[i])
           /\ Malformed(bodies[i])
           /\ ImpulsesOn(impulses, j) # << >>

\* C3: when the sample count of a body is zero (maxBuoyancyPoints is 0 or the
\* half-extents have zero volume), the applyWaterPhysics call on it applies
\* no impulse at all and the body is left unchanged.
C3_NoSamplesNoImpulse ==
    [][UpdateStep =>
         \A k \in 1..Len(calls') :
             LET i == calls'[k].body
                 he == calls'[k].trace.halfExtents
             IN  (/\ calls'[k].trace.outcome = "completed"
                  /\ \/ settings.maxBuoyancyPoints = Zero
                     \/ RMul(RMul(he[1], he[2]), he[3]) = Zero) =>
                     /\ calls'[k].trace.points = << >>
                     /\ ImpulsesOn(impulses', i) = << >>
                     /\ bodies'[i] = bodies[i]]_vars

\* a moving body below the surface went through applyWaterPhysics with no
\* sample point, its collider being flat although maxBuoyancyPoints is positive
C3_Witness ==
    /\ pc = "ticked"
    /\ \E k \in 1..Len(calls) :
           /\ calls[k].trace.outcome = "completed"
           /\ calls[k].trace.points = << >>
           /\ calls[k].trace.velocity # ZeroVector
           /\ RLt(calls[k].trace.position[2], tick.waterLevel)
           /\ settings.maxBuoyancyPoints # Zero

\* C4 (as claimed): the average depth is never computed by dividing by a zero
\* sample count: a call without sample points returns early, so that no NaN
\* average reaches calculateDragForce or the surge test.
C4_NoDivisionByZeroCount ==
    pc = "ticked" =>
        \A k \in 1..Len(calls) :
            calls[k].trace.outcome = "completed" =>
                /\ calls[k].trace.divisor # 0
                /\ (calls[k].trace.points = << >> => ~IsNaN(calls[k].trace.average))

\* the configurations the specification calls fatal
InvalidConfig ==
    \/ Direction = <<Zero, Zero>>
    \/ RLt(settings.density, Zero)
    \/ RLt(settings.subSteps, Zero)
    \/ RLt(settings.maxBuoyancyPoints, Zero)

\* C5 (as claimed): createWaterPhysics rejects a zero waveDirection, a negative
\* density and a negative subSteps or maxBuoyancyPoints, so that no simulator
\* with such settings exists and none reaches update.
C5_InvalidConfigRejected == pc # "load" => ~InvalidConfig

\* the indices of the dynamic bodies of a world, ascending
DynamicIndices(bods) ==
    SelectSeq([i \in 1..Len(bods) |-> i], LAMBDA i : bods[i].bodyType = "Dynamic")

\* C6: one update calls applyWaterPhysics exactly once for each dynamic body,
\* in the order of the body list, on the body as the world holds it at that
\* call, and neither calls it on nor applies an impulse to any other body.
C6_OncePerDynamicBody ==
    [][UpdateStep =>
         /\ Len(calls') = Len(DynamicIndices(bodies))
         /\ \A k \in 1..Len(calls') :
                /\ calls'[k].body = DynamicIndices(bodies)[k]
                /\ calls'[k].trace.position = bodies[calls'[k].body].translation
                /\ calls'[k].trace.velocity = bodies[calls'[k].body].linvel
         /\ \A j \in 1..Len(impulses') : bodies[impulses'[j].body].bodyType = "Dynamic"
         /\ \A i \in 1..Len(bodies) :
                bodies[i].bodyType # "Dynamic" => bodies'[i] = bodies[i]]_vars

\* a fixed body below the surface came first and was passed over, and the
\* dynamic body after it received impulses
C6_Witness ==
    /\ pc = "ticked"
    /\ Len(bodies) = 2
    /\ bodies[1].bodyType = "Fixed"
    /\ RLt(bodies[1].translation[2], tick.waterLevel)
    /\ Len(calls) = 1
    /\ ImpulsesOn(impulses, 2) # << >>

\* C7: calculateBuoyancyForce returns zero force and zero depth for a point
\* above waterLevel + getWaterHeight(x, z, time); otherwise the depth is the
\* surface height minus point.y, unclamped, and the force is
\* (0, density * 9.81 * depth * buoyancyMultiplier, 0): 19.62 for density 1,
\* multiplier 1, flat water and depth 2.
C7_BuoyancyAtPoint ==
    lastBuoy.called =>
        LET p == lastBuoy.position
            r == lastBuoy.result
            surfaceY == RAdd(lastBuoy.waterLevel,
                             getWaterHeight(settings, Direction, p[1], p[3], lastBuoy.time))
        IN  /\ RGt(p[2], surfaceY) => (r.force = ZeroVector /\ r.submergedDepth = Zero)
            /\ ~RGt(p[2], surfaceY) =>
                   /\ r.submergedDepth = RSub(surfaceY, p[2])
                   /\ r.force[1] = Zero
                   /\ r.force[3] = Zero
                   /\ r.force[2] = RMul(RMul(settings.density, settings.buoyancyMultiplier),
                                        RMul(R(981, 100), r.submergedDepth))
            /\ (/\ settings.density = One
                /\ settings.buoyancyMultiplier = One
                /\ settings.waveHeight = Zero
                /\ RSub(lastBuoy.waterLevel, p[2]) = R(2, 1)) =>
                   (r.submergedDepth = R(2, 1) /\ r.force = <<Zero, R(1962, 100), Zero>>)

\* the scenario of the claim: density 1, multiplier 1, flat water, a point 2 below
C7_Witness ==
    /\ lastBuoy.called
    /\ settings.density = One
    /\ settings.buoyancyMultiplier = One
    /\ settings.waveHeight = Zero
    /\ lastBuoy.result.submergedDepth = R(2, 1)
    /\ lastBuoy.result.force[2] = R(1962, 100)

\* C8 (as claimed): a point exactly on the surface gets depth 0 and the zero
\* force, and the depth returned for any point is at least 0.
C8_SurfacePointAndDepthSign ==
    lastBuoy.called =>
        LET p == lastBuoy.position
            r == lastBuoy.result
            surfaceY == RAdd(lastBuoy.waterLevel,
                             getWaterHeight(settings, Direction, p[1], p[3], lastBuoy.time))
        IN  /\ p[2] = surfaceY => (r.submergedDepth = Zero /\ r.force = ZeroVector)
            /\ RLe(Zero, r.submergedDepth)

\* u x v = 0: the vectors are parallel
Parallel(u, v) ==
    /\ RMul(u[2], v[3]) = RMul(u[3], v[2])
    /\ RMul(u[3], v[1]) = RMul(u[1], v[3])
    /\ RMul(u[1], v[2]) = RMul(u[2], v[1])

\* u . v
Dot(u, v) == RAdd(RAdd(RMul(u[1], v[1]), RMul(u[2], v[2])), RMul(u[3], v[3]))

\* C9: calculateDragForce returns the zero vector when the depth is at most 0
\* or the speed is below 0.001, a still body included; otherwise a vector of
\* magnitude (linearDrag * speed + quadraticDrag * speed^2) * depth pointing
\* against the velocity: 2.8 for linearDrag 0.5, quadraticDrag 0.05, speed 4
\* and depth 1.
C9_DragAtVelocity ==
    lastDrag.called =>
        LET v == lastDrag.velocity
            d == lastDrag.submergedDepth
            r == lastDrag.result
            speed == Sqrt(Dot(v, v))
            magnitude ==
                RMul(d, RAdd(RMul(settings.linearDrag, speed),
                             RMul(settings.quadraticDrag, RMul(speed, speed))))
        IN  /\ (RLe(d, Zero) \/ RLt(speed, R(1, 1000))) => r = ZeroVector
            /\ v = ZeroVector => r = ZeroVector
            /\ ~(RLe(d, Zero) \/ RLt(speed, R(1, 1000))) =>
                   /\ Dot(r, r) = RMul(magnitude, magnitude)
                   /\ ~IsNaN(d) =>
                          /\ Parallel(r, v)
                          /\ RLe(Dot(r, v), Zero)
                          /\ RLt(Zero, magnitude) => RLt(Dot(r, v), Zero)
            /\ (/\ settings.linearDrag = R(1, 2)
                /\ settings.quadraticDrag = R(1, 20)
                /\ v = <<R(4, 1), Zero, Zero>>
                /\ d = One) => r = <<R(-28, 10), Zero, Zero>>

\* the scenario of the claim: speed 4 at depth 1 under the default coefficients
C9_Witness ==
    /\ lastDrag.called
    /\ settings.linearDrag = R(1, 2)
    /\ settings.quadraticDrag = R(1, 20)
    /\ lastDrag.velocity = <<R(4, 1), Zero, Zero>>
    /\ lastDrag.submergedDepth = One
    /\ lastDrag.result = <<R(-28, 10), Zero, Zero>>

\* the forces of the samples summed from the last to the first
RECURSIVE TotalForce(_)
TotalForce(samples) ==
    IF samples = << >> THEN ZeroVector
    ELSE VAdd(Head(samples).force, TotalForce(Tail(samples)))

\* the depths of the samples summed from the last to the first
RECURSIVE TotalDepth(_)
TotalDepth(samples) ==
    IF samples = << >> THEN Zero
    ELSE RAdd(Head(samples).submergedDepth, TotalDepth(Tail(samples)))

\* the impulses of one kind in a log
OfKind(imps, kind) == SelectSeq(imps, LAMBDA e : e.kind = kind)

\* C10: in a call past the early returns the samples are calculateBuoyancyForce
\* at each sample point, the buoyancy impulse handed to applyImpulse is
\* (0, S.y * deltaTime, 0) for S the sum of the sample forces, and the drag
\* impulse is D * deltaTime in all three components for D the single
\* calculateDragForce of the velocity the body had at the call and the mean of
\* the sample depths, a point above the water counting 0.
C10_AggregatedImpulses ==
    [][UpdateStep =>
         \A k \in 1..Len(calls') :
             \A t \in {calls'[k].trace}, i \in {calls'[k].body}, dt \in {tick'.deltaTime} :
                 t.outcome = "completed" =>
                     \A S \in {TotalForce(t.samples)},
                        D \in {calculateDragForce(settings, bodies[i].linvel,
                                   RDiv(TotalDepth(t.samples), R(Len(t.samples), 1)))},
                        b \in {OfKind(ImpulsesOn(impulses', i), "buoyancy")},
                        g \in {OfKind(ImpulsesOn(impulses', i), "drag")} :
                         /\ Len(t.samples) = Len(t.points)
                         /\ \A m \in 1..Len(t.points) :
                                t.samples[m] = calculateBuoyancyForce(settings, Direction,
                                                   t.points[m], tick'.waterLevel, tick'.time)
                         /\ Len(b) <= 1
                         /\ Len(g) <= 1
                         /\ \A m \in 1..Len(b) :
                                b[m].impulse = <<Zero, RMul(dt, S[2]), Zero>>
                         /\ \A m \in 1..Len(g) :
                                g[m].impulse = <<RMul(dt, D[1]), RMul(dt, D[2]), RMul(dt, D[3])>>
                         /\ (D # ZeroVector /\ ~IsNaN(D[1]) /\ ~IsNaN(D[2]) /\ ~IsNaN(D[3]))
                                => Len(g) = 1
                         /\ RGt(S[2], Zero) => Len(b) = 1]_vars

\* a moving body sampled at two points, one above the water and one below,
\* received both a buoyancy and a drag impulse
C10_Witness ==
    /\ pc = "ticked"
    /\ \E k \in 1..Len(calls) :
           LET t == calls[k].trace
           IN  /\ Len(t.samples) = 2
               /\ \E m \in 1..2 : t.samples[m].submergedDepth = Zero
               /\ \E m \in 1..2 : RGt(t.samples[m].submergedDepth, Zero)
               /\ OfKind(ImpulsesOn(impulses, calls[k].body), "buoyancy") # << >>
               /\ OfKind(ImpulsesOn(impulses, calls[k].body), "drag") # << >>
               /\ tick.deltaTime # Zero

\* the kinds of the impulses of a log, in order
Kinds(imps) == [j \in 1..Len(imps) |-> imps[j].kind]

\* C11: a call past the early returns applies the wave-surge impulse if and
\* only if 0 < averageSubmergedDepth < 2 * halfExtents.y, the average being
\* the mean of the sample depths; the impulse has a zero y component and is
\* waveDirection * 0.5 * waveHeight * sin(time * waveSpeed) * deltaTime in x and z.
C11_SurgeAtSurface ==
    pc = "ticked" =>
        \A k \in 1..Len(calls) :
            \A t \in {calls[k].trace},
               surges \in {OfKind(ImpulsesOn(impulses, calls[k].body), "surge")} :
                t.outcome = "completed" =>
                    \A mean \in {RDiv(TotalDepth(t.samples), R(Len(t.samples), 1))},
                       magnitude \in {RMul(RMul(RMul(Half, settings.waveHeight),
                                               Sin(RMul(tick.time, settings.waveSpeed))),
                                          tick.deltaTime)} :
                        /\ Len(surges) <= 1
                        /\ Len(surges) = 1 <=>
                               (RLt(Zero, mean)
                                /\ RLt(mean, RMul(R(2, 1), HalfExtentsOf(bodies[calls[k].body])[2])))
                        /\ \A j \in 1..Len(surges) :
                               surges[j].impulse = <<RMul(Direction[1], magnitude), Zero,
                                                     RMul(Direction[2], magnitude)>>

\* a partly submerged body received a surge impulse that is not zero
C11_Witness ==
    /\ pc = "ticked"
    /\ \E k \in 1..Len(calls) :
           /\ OfKind(ImpulsesOn(impulses, calls[k].body), "surge") # << >>
           /\ OfKind(ImpulsesOn(impulses, calls[k].body), "surge")[1].impulse[1] # Zero
           /\ RLt(calls[k].trace.average, RMul(R(2, 1), calls[k].trace.halfExtents[2]))

\* the number of sample points the claim gives: min(maxBuoyancyPoints, ceil(8 hx hy hz))
ClaimedCount(body) ==
    LET he == IF body.shape = "Cuboid" THEN body.halfExtents ELSE <<Half, Half, Half>>
        volume == Ceil(RMul(R(8, 1), RMul(he[1], RMul(he[2], he[3]))))
    IN  IF RLt(volume, settings.maxBuoyancyPoints) THEN volume ELSE settings.maxBuoyancyPoints

\* lo <= a <= hi
Within(a, lo, hi) == RLe(lo, a) /\ RLe(a, hi)

\* the point lies in the box of the half-extents he around position
InBox(point, position, he) ==
    \A axis \in 1..3 :
        Within(point[axis], RSub(position[axis], he[axis]), RAdd(position[axis], he[axis]))

MutationStep == pc' = "mutated"

\* C13 (as claimed): a write to the settings of one simulator, a write into
\* its settings.waveDirection vector included, leaves the settings of the
\* other simulator, the heights its getWaterHeight returns and the
\* module-level default parameters as they were.
C13_EnginesShareNoState ==
    [][MutationStep =>
         /\ peer' = peer
         /\ vectors'[peer.settings.waveDirection] = vectors[peer.settings.waveDirection]
         /\ \A time \in Times :
                getWaterHeight(peer'.settings, vectors'[peer'.settings.waveDirection],
                               One, Half, time)
                    = getWaterHeight(peer.settings, vectors[peer.settings.waveDirection],
                                     One, Half, time)
         /\ vectors'[waterPhysicsParams.waveDirection]
                = vectors[waterPhysicsParams.waveDirection]]_vars

\* the wave direction has length 1, to three decimals
UnitDirection(dir) ==
    /\ RLt(R(999, 1000), RAdd(RMul(dir[1], dir[1]), RMul(dir[2], dir[2])))
    /\ RLt(RAdd(RMul(dir[1], dir[1]), RMul(dir[2], dir[2])), R(1001, 1000))

\* normalize of a 2D vector
Normalize2(v) ==
    LET len == Sqrt(RAdd(RMul(v[1], v[1]), RMul(v[2], v[2])))
    IN  <<RDiv(v[1], len), RDiv(v[2], len)>>

\* amplitude * sin(dot((x, z), direction) * frequency + time * speed)
WaveTerm(amplitude, x, z, direction, frequency, time, speed) ==
    RMul(amplitude,
         Sin(RAdd(RMul(RAdd(RMul(x, direction[1]), RMul(z, direction[2])), frequency),
                  RMul(time, speed))))

\* C14 (as claimed): for a unit waveDirection (dx, dz) the height is the
\* primary wave along (dx, dz), the secondary along (-dz, dx) and a tertiary
\* wave of amplitude 0.15 * waveHeight whose phase is
\* dot((x, z), normalize((dx - dz, dz + dx))) * 2.3 * waveFrequency
\* + time * 1.2 * waveSpeed.
C14_TertiaryAlongNormalizedSum ==
    (lastHeight.called /\ UnitDirection(Direction)) =>
        LET dx == Direction[1]
            dz == Direction[2]
            x == lastHeight.x
            z == lastHeight.z
            time == lastHeight.time
            primary ==
                WaveTerm(settings.waveHeight, x, z, <<dx, dz>>, settings.waveFrequency,
                         time, settings.waveSpeed)
            secondary ==
                WaveTerm(RMul(R(3, 10), settings.waveHeight), x, z, <<RNeg(dz), dx>>,
                         RMul(R(3, 2), settings.waveFrequency),
                         time, RMul(R(4, 5), settings.waveSpeed))
            tertiary ==
                WaveTerm(RMul(R(15, 100), settings.waveHeight), x, z,
                         Normalize2(<<RSub(dx, dz), RAdd(dz, dx)>>),
                         RMul(R(23, 10), settings.waveFrequency),
                         time, RMul(R(12, 10), settings.waveSpeed))
        IN  lastHeight.result = RAdd(RAdd(primary, secondary), tertiary)

\* C15: whatever x, z and time, getWaterHeight returns a value in
\* [-1.45 * waveHeight, 1.45 * waveHeight], 1.45 being 1 + 0.3 + 0.15, the
\* sum of the amplitude bounds of the three waves; nothing is clamped.
C15_HeightBounded ==
    lastHeight.called =>
        /\ RLe(RNeg(RMul(R(145, 100), settings.waveHeight)), lastHeight.result)
        /\ RLe(lastHeight.result, RMul(R(145, 100), settings.waveHeight))

\* a height beyond the amplitude of the primary wave alone was returned
C15_Witness ==
    /\ lastHeight.called
    /\ RGt(settings.waveHeight, Zero)
    /\ \/ RGt(lastHeight.result, settings.waveHeight)
       \/ RLt(lastHeight.result, RNeg(settings.waveHeight))

\* C16: getWaterHeight takes no water level, and the surface
\* calculateBuoyancyForce uses is waterLevel + getWaterHeight(x, z, time): at
\* another water level the same point meets a surface shifted by exactly the
\* difference of the levels, the wave height being the same.
C16_WaterLevelShiftsSurface ==
    (lastBuoy.called /\ ~IsNaN(lastBuoy.position[2])) =>
        \A p \in {lastBuoy.position}, w \in {lastBuoy.waterLevel}, r \in {lastBuoy.result},
           h \in {getWaterHeight(settings, Direction, lastBuoy.position[1],
                                 lastBuoy.position[3], lastBuoy.time)} :
            /\ RGt(p[2], RAdd(w, h)) => r.submergedDepth = Zero
            /\ ~RGt(p[2], RAdd(w, h)) => RSub(RAdd(r.submergedDepth, p[2]), w) = h
            /\ \A w2 \in WaterLevels :
                   \A r2 \in {calculateBuoyancyForce(settings, Direction, p, w2,
                                                     lastBuoy.time)} :
                       /\ ~RGt(p[2], RAdd(w2, h)) => RSub(RAdd(r2.submergedDepth, p[2]), w2) = h
                       /\ (~RGt(p[2], RAdd(w, h)) /\ ~RGt(p[2], RAdd(w2, h))) =>
                              RSub(r2.submergedDepth, r.submergedDepth) = RSub(w2, w)
                       /\ RGt(p[2], RAdd(w2, h)) => r2.submergedDepth = Zero

\* a point under waves was under the surface at water level 2 and is under
\* it at water level 0 as well, 2 less deep
C16_Witness ==
    /\ lastBuoy.called
    /\ lastBuoy.waterLevel = R(2, 1)
    /\ settings.waveHeight # Zero
    /\ getWaterHeight(settings, Direction, lastBuoy.position[1], lastBuoy.position[3],
                      lastBuoy.time) # Zero
    /\ RGt(lastBuoy.result.submergedDepth, R(2, 1))
    /\ calculateBuoyancyForce(settings, Direction, lastBuoy.position, Zero,
                              lastBuoy.time).submergedDepth
           = RSub(lastBuoy.result.submergedDepth, R(2, 1))

\* the place of a kind of impulse in the order buoyancy, drag, wave surge
Rank(kind) == IF kind = "buoyancy" THEN 1 ELSE IF kind = "drag" THEN 2 ELSE 3

\* the velocity v after the impulses of a log, on a body of unit mass
RECURSIVE VelocityAfter(_, _)
VelocityAfter(v, imps) ==
    IF imps = << >> THEN v
    ELSE VelocityAfter(<<RAdd(v[1], Head(imps).impulse[1]),
                         RAdd(v[2], Head(imps).impulse[2]),
                         RAdd(v[3], Head(imps).impulse[3])>>, Tail(imps))

\* C17: one applyWaterPhysics call on a body makes at most three applyImpulse
\* calls, in the order buoyancy, drag, wave surge, each at most once; the
\* body changes by these impulses and by nothing else; the buoyancy impulse
\* is made only for a total buoyancy force that is not zero, the drag impulse
\* only for a drag force that is not zero.
C17_ImpulseOrder ==
    [][UpdateStep =>
         \A k \in 1..Len(calls') :
             \A t \in {calls'[k].trace}, i \in {calls'[k].body},
                on \in {ImpulsesOn(impulses', calls'[k].body)} :
                 /\ Len(on) <= 3
                 /\ \A a \in 1..Len(on), b \in 1..Len(on) :
                        a < b => Rank(on[a].kind) < Rank(on[b].kind)
                 /\ \A a \in 1..Len(on) : on[a].kind \in {"buoyancy", "drag", "surge"}
                 /\ bodies'[i] = [bodies[i] EXCEPT !.linvel = VelocityAfter(bodies[i].linvel, on)]
                 /\ OfKind(on, "buoyancy") # << >> => TotalForce(t.samples) # ZeroVector
                 /\ OfKind(on, "drag") # << >> => t.drag # ZeroVector]_vars

\* one body received the three impulses, in order, and its velocity changed
C17_Witness ==
    /\ pc = "ticked"
    /\ \E k \in 1..Len(calls) :
           /\ Kinds(ImpulsesOn(impulses, calls[k].body)) = <<"buoyancy", "drag", "surge">>
           /\ bodies[calls[k].body].linvel # calls[k].trace.velocity

\* C18: once createWaterControls has run, and after every change made
\* through the controls, physics.waterLevel, water.position.y and
\* waterParams.waterLevel are equal, and physics.buoyancyForce and
\* physics.dragCoefficient equal waterParams.buoyancyForce and
\* waterParams.dragCoefficient.
C18_ControlsInSync ==
    pc = "gui" =>
        /\ physics.waterLevel = waterY
        /\ waterY = waterParams.waterLevel
        /\ physics.buoyancyForce = waterParams.buoyancyForce
        /\ physics.dragCoefficient = waterParams.dragCoefficient

\* the three controls were changed: the water level to -1.3 from an entry of
\* -1.26, the buoyancy force to its upper limit, the drag coefficient to 0.3
C18_Witness ==
    /\ pc = "gui"
    /\ waterY = R(-13, 10)
    /\ physics.waterLevel = R(-13, 10)
    /\ physics.buoyancyForce = R(50, 1)
    /\ physics.dragCoefficient = R(3, 10)

====
